---- MODULE Spec2Model ----
(***************************************************************************)
(* State-machine model of the user-account backend: the auth, user and     *)
(* admin controllers over the User collection, the token issued by         *)
(* jwt.sign, and the protect / authorize middleware the routers compose.   *)
(*                                                                         *)
(* A request occupies a client slot.  A handler is cut at the awaits       *)
(* where another request can observe or change the store between its       *)
(* check and its write (signup, login, updateUser); each piece is one      *)
(* action.  Handlers with a single store call are one action.              *)
(*                                                                         *)
(* Time is counted in days: '24h' is 1 and '30d' is 30.                    *)
(* The signing secret JWT_SECRET is taken to be configured, so jwt.sign    *)
(* does not throw.                                                         *)
(***************************************************************************)
EXTENDS Integers, Sequences, FiniteSets, TLC

VARIABLES
    users,      \* the User collection: document id -> document
    nextId,     \* number of ObjectIds handed out so far
    now,        \* the clock, in days
    tokens,     \* the signed tokens clients still hold
    env,        \* process.env: ADMIN_EMAIL, ADMIN_PASSWORD
    reqs,       \* the request in flight in each client slot
    resp,       \* the last response sent to each client slot
    tmpFiles,   \* slots whose uploaded temp file is still on disk
    mediaCount  \* number of images stored at the media host

vars == <<users, nextId, now, tokens, env, reqs, resp, tmpFiles, mediaCount>>

(***************************************************************************)
(* Bounds of the model.                                                    *)
(***************************************************************************)
NumClients == 2
MaxUsers == 2
MaxTokens == 2
MaxDays == 2
MaxUploads == 1

Slots == 1..NumClients

(***************************************************************************)
(* Values.  A JavaScript undefined string is Undefined; a phone number is  *)
(* a sequence of one-character strings so that replace() and the regular   *)
(* expressions can be computed.                                            *)
(***************************************************************************)
Undefined == "<undefined>"
UndefinedPhone == <<"undefined">>
NoDate == -1
NoUrl == 0
NoId == "none"

Digits == {"0", "1", "2", "3", "4", "5", "6", "7", "8", "9"}
NonZeroDigits == Digits \ {"0"}

ObjectId(n) == "u" \o ToString(n)

Idle == [op |-> "idle", pc |-> "idle"]

\* sig is the secret a token was signed with
NoToken ==
    [ userId |-> NoId, email |-> Undefined, role |-> Undefined,
      iat |-> NoDate, exp |-> NoDate, sig |-> Undefined ]
NoProfile == [id |-> NoId]

(***************************************************************************)
(* Identity fields: what the schema setters, String.replace and the        *)
(* regular expressions of the controllers compute.                         *)
(***************************************************************************)
\* trim and lowercase of the email path; the other emails of the model are
\* already trimmed and lower-cased
CastEmail(e) == IF e = " A@X.io" THEN "a@x.io" ELSE e

\* the match pattern of the email path
EmailMatch(e) == e \in {"a@x.io", "b@x.io"}

\* phoneNumber.replace(/[^\d+]/g, ''): every digit and every '+' is kept
StripPhone(p) == SelectSeq(p, LAMBDA c : c \in Digits \cup {"+"})

StartsWithPlus(p) == Len(p) >= 1 /\ p[1] = "+"

\* a pattern that stops at ten digits
E164Short(p) ==
    /\ Len(p) >= 3
    /\ Len(p) <= 11
    /\ p[1] = "+"
    /\ p[2] \in NonZeroDigits
    /\ \A i \in 3..Len(p) : p[i] \in Digits

\* /^\+[1-9]\d{1,14}$/
E164(p) ==
    /\ Len(p) >= 3
    /\ Len(p) <= 16
    /\ p[1] = "+"
    /\ p[2] \in NonZeroDigits
    /\ \A i \in 3..Len(p) : p[i] \in Digits

\* /^[\+]?[1-9][\d]{0,15}$/
SchemaPhoneMatch(p) ==
    LET d == IF StartsWithPlus(p) THEN Tail(p) ELSE p
    IN  /\ Len(d) >= 1
        /\ Len(d) <= 16
        /\ d[1] \in NonZeroDigits
        /\ \A i \in 2..Len(d) : d[i] \in Digits

\* JavaScript truthiness of a string field of the request body
FalsyPhone(p) == p = UndefinedPhone \/ p = <<>>
Falsy(str) == str = Undefined \/ str = ""

(***************************************************************************)
(* Password Hasher: bcrypt.genSalt(10), bcrypt.hash, bcrypt.compare.       *)
(***************************************************************************)
Hash(password) == <<"$2a$10$", password>>
Compare(password, hash) == hash = Hash(password)
\* a bcrypt hash is 60 characters long whatever the plaintext
HashLength(hash) == 60

(***************************************************************************)
(* The User schema: validators run by save() and by runValidators.         *)
(***************************************************************************)
FirstNameErrors(v) ==
    IF Falsy(v) THEN <<"First name is required">> ELSE <<>>

EmailErrors(v) ==
    IF Falsy(v) THEN <<"Email is required">>
    ELSE IF ~EmailMatch(CastEmail(v)) THEN <<"Please enter a valid email">>
    ELSE <<>>

\* minlength runs on the stored value, which is the hash
PasswordErrors(hash) ==
    IF HashLength(hash) < 6 THEN <<"Password must be at least 6 characters">> ELSE <<>>

\* match and the custom validator both let an absent or empty value pass
PhoneErrors(v) ==
    IF FalsyPhone(v) THEN <<>>
    ELSE IF ~SchemaPhoneMatch(v) THEN <<"Please enter a valid phone number with country code">>
    ELSE IF ~E164(v) THEN <<"Phone number must start with + followed by country code and number (e.g., +911234567890)">>
    ELSE <<>>

RoleErrors(v) ==
    IF v \in {"user", "admin", "moderator", Undefined} THEN <<>>
    ELSE <<"not a valid enum value for path role">>

\* new User({...}): the schema defaults and setters
NewUser(firstName, email, hash, phoneNumber, profilePicture) ==
    [ firstName |-> firstName,
      email |-> CastEmail(email),
      password |-> hash,
      phoneNumber |-> phoneNumber,
      profilePicture |-> profilePicture,
      isActive |-> TRUE,
      role |-> "user",
      lastLoginAt |-> NoDate ]

ValidationErrors(doc) ==
    FirstNameErrors(doc.firstName) \o EmailErrors(doc.email)
        \o PasswordErrors(doc.password) \o PhoneErrors(doc.phoneNumber)

\* a public profile that forgets to delete the password
getPublicProfileWithPassword(id, doc) ==
    [ id |-> id,
      firstName |-> doc.firstName,
      email |-> doc.email,
      password |-> doc.password,
      phoneNumber |-> doc.phoneNumber,
      profilePicture |-> doc.profilePicture,
      isActive |-> doc.isActive,
      role |-> doc.role,
      lastLoginAt |-> doc.lastLoginAt ]

\* getPublicProfile: toObject() without the password
getPublicProfile(id, doc) ==
    [ id |-> id,
      firstName |-> doc.firstName,
      email |-> doc.email,
      phoneNumber |-> doc.phoneNumber,
      profilePicture |-> doc.profilePicture,
      isActive |-> doc.isActive,
      role |-> doc.role,
      lastLoginAt |-> doc.lastLoginAt ]

\* .select('-password'): the document without the password path
selectWithoutPassword(id, doc) ==
    [ id |-> id,
      firstName |-> doc.firstName,
      email |-> doc.email,
      phoneNumber |-> doc.phoneNumber,
      profilePicture |-> doc.profilePicture,
      isActive |-> doc.isActive,
      role |-> doc.role,
      lastLoginAt |-> doc.lastLoginAt ]

(***************************************************************************)
(* The User collection.                                                    *)
(***************************************************************************)
Ids == DOMAIN users

\* User.findOne({ email }): the filter is cast like the path
FindByEmail(e) == {i \in Ids : users[i].email = CastEmail(e)}

\* User.findOne({ phoneNumber, _id: { $ne: except } })
FindByPhone(p, except) == {i \in Ids : users[i].phoneNumber = p /\ i # except}

\* a collection whose email index was never built
EmailIndexMissing(e, except) == FALSE

\* the unique index declared on the email path
EmailIndexRejects(e, except) == \E i \in Ids : i # except /\ users[i].email = e

Put(id, doc) == [i \in Ids \cup {id} |-> IF i = id THEN doc ELSE users[i]]
Remove(ids) == [i \in Ids \ ids |-> users[i]]

(***************************************************************************)
(* Token Service: jwt.sign with expiresIn.                                 *)
(***************************************************************************)
UserTokenDays == 30
AdminTokenDays == 1

JWT_SECRET == "JWT_SECRET"

\* a user token signed with the admin lifetime
generateTokenShortLived(userId) ==
    [ userId |-> userId, email |-> Undefined, role |-> Undefined,
      iat |-> now, exp |-> now + AdminTokenDays, sig |-> JWT_SECRET ]

generateToken(userId) ==
    [ userId |-> userId, email |-> Undefined, role |-> Undefined,
      iat |-> now, exp |-> now + UserTokenDays, sig |-> JWT_SECRET ]

\* a client keeps at most MaxTokens of the tokens it was sent
Keep(token) ==
    IF Cardinality(tokens) < MaxTokens THEN tokens \cup {token} ELSE tokens

(***************************************************************************)
(* Requests and responses.                                                 *)
(***************************************************************************)
NoPrincipal == [id |-> NoId, role |-> Undefined]

Request(op, pc, in, principal, loc) ==
    [op |-> op, pc |-> pc, in |-> in, user |-> principal, loc |-> loc]

Response(op, in, status, message) ==
    [ op |-> op, in |-> in, status |-> status, message |-> message,
      errors |-> <<>>, error |-> Undefined, token |-> NoToken, user |-> NoProfile,
      users |-> {} ]

Reply(s, r) ==
    /\ reqs' = [reqs EXCEPT ![s] = Idle]
    /\ resp' = [resp EXCEPT ![s] = r]

Goto(s, r) ==
    /\ reqs' = [reqs EXCEPT ![s] = r]
    /\ UNCHANGED resp

NoResponse == Response("none", Undefined, 0, "")

\* a client sends its next request once it has read the last response
Free(s) == reqs[s].op = "idle" /\ resp[s].op = "none"

Receive(s) ==
    /\ resp[s].op # "none"
    /\ resp' = [resp EXCEPT ![s] = NoResponse]
    /\ UNCHANGED <<users, nextId, now, tokens, env, reqs, tmpFiles, mediaCount>>

InternalError(op, in, message) ==
    [Response(op, in, 500, "Internal server error") EXCEPT !.error = message]

(***************************************************************************)
(* authController: signup.                                                 *)
(***************************************************************************)
\* from the email lookup up to the next await
SignupFindEmail(s, in, url) ==
    IF FindByEmail(in.email) # {}
    THEN Reply(s, Response("signup", in, 400, "User with this email already exists"))
    ELSE IF FalsyPhone(in.phoneNumber)
    THEN Goto(s, Request("signup", "save", in, NoPrincipal,
                 [profilePictureUrl |-> url, processedPhoneNumber |-> in.phoneNumber]))
    ELSE LET p == StripPhone(in.phoneNumber) IN
         IF ~StartsWithPlus(p)
         THEN Reply(s, Response("signup", in, 400,
                  "Phone number must start with country code (e.g., +91 for India)"))
         ELSE IF ~E164(p)
         THEN Reply(s, Response("signup", in, 400,
                  "Invalid phone number format. Please include country code (e.g., +911234567890)"))
         ELSE Goto(s, Request("signup", "findPhone", in, NoPrincipal,
                      [profilePictureUrl |-> url, processedPhoneNumber |-> p]))

\* POST /api/auth/signup arrives; uploadMiddleware has stored req.file
signup(s, in) ==
    /\ Free(s)
    /\ nextId + Cardinality({t \in Slots : reqs[t].op = "signup"}) < MaxUsers
    /\ IF in.file
       THEN /\ Goto(s, Request("signup", "upload", in, NoPrincipal,
                       [profilePictureUrl |-> NoUrl, processedPhoneNumber |-> UndefinedPhone]))
            /\ tmpFiles' = tmpFiles \cup {s}
       ELSE /\ SignupFindEmail(s, in, NoUrl)
            /\ UNCHANGED tmpFiles
    /\ UNCHANGED <<users, nextId, now, tokens, env, mediaCount>>

\* uploadToCloudinary returns: it never throws, a failure is success: false
signup_upload(s) ==
    /\ reqs[s].op = "signup"
    /\ reqs[s].pc = "upload"
    /\ \E success \in BOOLEAN :
          IF success
          THEN /\ mediaCount < MaxUploads
               /\ mediaCount' = mediaCount + 1
               /\ tmpFiles' = tmpFiles \ {s}
               /\ SignupFindEmail(s, reqs[s].in, mediaCount + 1)
          ELSE /\ Reply(s, Response("signup", reqs[s].in, 500, "Failed to upload profile picture"))
               /\ UNCHANGED <<tmpFiles, mediaCount>>
    /\ UNCHANGED <<users, nextId, now, tokens, env>>

signup_findPhone(s) ==
    /\ reqs[s].op = "signup"
    /\ reqs[s].pc = "findPhone"
    /\ IF FindByPhone(reqs[s].loc.processedPhoneNumber, NoId) # {}
       THEN Reply(s, Response("signup", reqs[s].in, 400, "Phone number already registered"))
       ELSE Goto(s, [reqs[s] EXCEPT !.pc = "save"])
    /\ UNCHANGED <<users, nextId, now, tokens, env, tmpFiles, mediaCount>>

\* bcrypt.hash, new User, user.save(), generateToken
signup_save(s) ==
    /\ reqs[s].op = "signup"
    /\ reqs[s].pc = "save"
    /\ LET in == reqs[s].in
           doc == NewUser(in.firstName, in.email, Hash(in.password),
                          reqs[s].loc.processedPhoneNumber, reqs[s].loc.profilePictureUrl)
           errs == ValidationErrors(doc)
           id == ObjectId(nextId + 1)
           token == generateToken(id)
       IN  IF in.password = Undefined
           THEN /\ Reply(s, InternalError("signup", in, "Illegal arguments: undefined, string"))
                /\ UNCHANGED <<users, nextId, tokens>>
           ELSE IF errs # <<>>
           THEN /\ Reply(s, [Response("signup", in, 400, "Validation failed") EXCEPT !.errors = errs])
                /\ UNCHANGED <<users, nextId, tokens>>
           ELSE IF EmailIndexRejects(doc.email, NoId)
           THEN /\ Reply(s, Response("signup", in, 400, "Email already exists"))
                /\ UNCHANGED <<users, nextId, tokens>>
           ELSE /\ users' = Put(id, doc)
                /\ nextId' = nextId + 1
                /\ tokens' = Keep(token)
                /\ Reply(s, [Response("signup", in, 201, "User registered successfully")
                               EXCEPT !.token = token, !.user = getPublicProfile(id, doc)])
    /\ UNCHANGED <<now, env, tmpFiles, mediaCount>>

(***************************************************************************)
(* authController: login.                                                  *)
(***************************************************************************)
\* a login that tells a wrong password from an unknown email
loginTelling(s, in) ==
    /\ Free(s)
    /\ LET found == FindByEmail(in.email) IN
       IF Falsy(in.email) \/ Falsy(in.password)
       THEN Reply(s, Response("login", in, 400, "Please provide email and password"))
       ELSE IF found = {}
       THEN Reply(s, Response("login", in, 401, "Invalid email or password"))
       ELSE LET id == CHOOSE i \in found : TRUE IN
            IF ~users[id].isActive
            THEN Reply(s, Response("login", in, 401,
                     "Account is deactivated. Please contact support."))
            ELSE IF ~Compare(in.password, users[id].password)
            THEN Reply(s, Response("login", in, 401, "Wrong password"))
            ELSE Goto(s, Request("login", "save", in, NoPrincipal,
                         [id |-> id, user |-> users[id]]))
    /\ UNCHANGED <<users, nextId, now, tokens, env, tmpFiles, mediaCount>>

\* a login that does not look at isActive
loginWithoutActiveCheck(s, in) ==
    /\ Free(s)
    /\ LET found == FindByEmail(in.email) IN
       IF Falsy(in.email) \/ Falsy(in.password)
       THEN Reply(s, Response("login", in, 400, "Please provide email and password"))
       ELSE IF found = {}
       THEN Reply(s, Response("login", in, 401, "Invalid email or password"))
       ELSE LET id == CHOOSE i \in found : TRUE IN
            IF ~Compare(in.password, users[id].password)
            THEN Reply(s, Response("login", in, 401, "Invalid email or password"))
            ELSE Goto(s, Request("login", "save", in, NoPrincipal,
                         [id |-> id, user |-> users[id]]))
    /\ UNCHANGED <<users, nextId, now, tokens, env, tmpFiles, mediaCount>>

\* POST /api/auth/login: input check, findOne, isActive, bcrypt.compare
login(s, in) ==
    /\ Free(s)
    /\ LET found == FindByEmail(in.email) IN
       IF Falsy(in.email) \/ Falsy(in.password)
       THEN Reply(s, Response("login", in, 400, "Please provide email and password"))
       ELSE IF found = {}
       THEN Reply(s, Response("login", in, 401, "Invalid email or password"))
       ELSE LET id == CHOOSE i \in found : TRUE IN
            IF ~users[id].isActive
            THEN Reply(s, Response("login", in, 401,
                     "Account is deactivated. Please contact support."))
            ELSE IF ~Compare(in.password, users[id].password)
            THEN Reply(s, Response("login", in, 401, "Invalid email or password"))
            ELSE Goto(s, Request("login", "save", in, NoPrincipal,
                         [id |-> id, user |-> users[id]]))
    /\ UNCHANGED <<users, nextId, now, tokens, env, tmpFiles, mediaCount>>

\* user.lastLoginAt = new Date(); user.save(); generateToken
login_save(s) ==
    /\ reqs[s].op = "login"
    /\ reqs[s].pc = "save"
    /\ LET in == reqs[s].in
           id == reqs[s].loc.id
           user == [reqs[s].loc.user EXCEPT !.lastLoginAt = now]
           token == generateToken(id)
       IN  IF id \notin Ids
           THEN /\ Reply(s, InternalError("login", in, "No document found for query"))
                /\ UNCHANGED <<users, tokens>>
           ELSE /\ users' = [users EXCEPT ![id].lastLoginAt = now]
                /\ tokens' = Keep(token)
                /\ Reply(s, [Response("login", in, 200, "Login successful")
                               EXCEPT !.token = token, !.user = getPublicProfile(id, user)])
    /\ UNCHANGED <<nextId, now, env, tmpFiles, mediaCount>>

(***************************************************************************)
(* adminController: adminLogin.                                            *)
(***************************************************************************)
AdminId == "admin"

adminUser == [id |-> AdminId, role |-> "admin"]

\* an admin token that carries the admin email in place of the sentinel id
adminTokenByEmail ==
    [ userId |-> env.ADMIN_EMAIL, email |-> env.ADMIN_EMAIL, role |-> "admin",
      iat |-> now, exp |-> now + AdminTokenDays, sig |-> JWT_SECRET ]

adminToken ==
    [ userId |-> AdminId, email |-> env.ADMIN_EMAIL, role |-> "admin",
      iat |-> now, exp |-> now + AdminTokenDays, sig |-> JWT_SECRET ]

\* a login that tells which of the two fields was wrong
adminLoginResponseTelling(in) ==
    IF Falsy(in.email) \/ Falsy(in.password)
    THEN Response("adminLogin", in, 400, "Email and password are required")
    ELSE IF Falsy(env.ADMIN_EMAIL) \/ Falsy(env.ADMIN_PASSWORD)
    THEN Response("adminLogin", in, 500, "Admin configuration error")
    ELSE IF in.email # env.ADMIN_EMAIL
    THEN Response("adminLogin", in, 401, "Invalid admin credentials")
    ELSE IF in.password # env.ADMIN_PASSWORD
    THEN Response("adminLogin", in, 401, "Invalid admin password")
    ELSE [Response("adminLogin", in, 200, "Admin login successful") EXCEPT !.token = adminToken]

\* a login that compares against the environment without checking it is set
adminLoginResponseUnchecked(in) ==
    IF Falsy(in.email) \/ Falsy(in.password)
    THEN Response("adminLogin", in, 400, "Email and password are required")
    ELSE IF in.email # env.ADMIN_EMAIL \/ in.password # env.ADMIN_PASSWORD
    THEN Response("adminLogin", in, 401, "Invalid admin credentials")
    ELSE [Response("adminLogin", in, 200, "Admin login successful") EXCEPT !.token = adminToken]

adminLoginResponse(in) ==
    IF Falsy(in.email) \/ Falsy(in.password)
    THEN Response("adminLogin", in, 400, "Email and password are required")
    ELSE IF Falsy(env.ADMIN_EMAIL) \/ Falsy(env.ADMIN_PASSWORD)
    THEN Response("adminLogin", in, 500, "Admin configuration error")
    ELSE IF in.email # env.ADMIN_EMAIL
    THEN Response("adminLogin", in, 401, "Invalid admin credentials")
    ELSE IF in.password # env.ADMIN_PASSWORD
    THEN Response("adminLogin", in, 401, "Invalid admin credentials")
    ELSE [Response("adminLogin", in, 200, "Admin login successful")
            EXCEPT !.token = adminToken,
                   !.user = [id |-> AdminId, email |-> env.ADMIN_EMAIL, role |-> "admin",
                             firstName |-> "Admin", lastName |-> "User"]]

\* an admin login that keeps the administrator as a record of the collection
adminLoginStoring(s, in) ==
    /\ Free(s)
    /\ LET r == adminLoginResponse(in) IN
       /\ Reply(s, r)
       /\ tokens' = IF r.status = 200 THEN Keep(r.token) ELSE tokens
       /\ users' = IF r.status = 200
                   THEN Put(AdminId, [NewUser("Admin", in.email, Hash(in.password),
                                              UndefinedPhone, NoUrl) EXCEPT !.role = "admin"])
                   ELSE users
    /\ UNCHANGED <<nextId, now, env, tmpFiles, mediaCount>>

\* POST /api/admin/login
adminLogin(s, in) ==
    /\ Free(s)
    /\ LET r == adminLoginResponse(in) IN
       /\ Reply(s, r)
       /\ tokens' = IF r.status = 200 THEN Keep(r.token) ELSE tokens
    /\ UNCHANGED <<users, nextId, now, env, tmpFiles, mediaCount>>

(***************************************************************************)
(* middleware/auth: protect and authorize.                                 *)
(***************************************************************************)
\* Token Service verify: the signature and the expiry
verify(token) == token.sig = JWT_SECRET /\ now <= token.exp

\* the principal attached to the request, or NoPrincipal when rejected
protect(token) ==
    IF ~verify(token) THEN NoPrincipal
    ELSE IF token.userId = AdminId THEN adminUser
    ELSE IF token.userId \in Ids /\ users[token.userId].isActive
    THEN [id |-> token.userId, role |-> users[token.userId].role]
    ELSE NoPrincipal

authorize(roles, principal) == principal.role \in roles

Unauthenticated(op, in) == Response(op, in, 401, "Not authorized")
Forbidden(op, in) == Response(op, in, 403, "Forbidden")

\* a gate that also lets the default role through
AdminRolesWithUser == {"admin", "user"}

\* routes/admin.js: router.use(protect); router.use(authorize('admin'))
AdminRoles == {"admin"}

\* a route registered without protect
UserRouterOpen(op, in) == NoResponse

\* the response of the middleware chain, or NoResponse when the handler runs
UserRouter(op, in) ==
    IF protect(in.token) = NoPrincipal THEN Unauthenticated(op, in) ELSE NoResponse

AdminRouter(op, in) ==
    IF protect(in.token) = NoPrincipal THEN Unauthenticated(op, in)
    ELSE IF ~authorize(AdminRoles, protect(in.token)) THEN Forbidden(op, in)
    ELSE NoResponse

Rejected(r) == r.status # 0

\* req.user is undefined when no middleware attached a principal
TypeError(op, in) == InternalError(op, in, "Cannot read properties of undefined")

\* Cast to ObjectId failed: the sentinel id is no ObjectId
CastError(op, in) == InternalError(op, in, "Cast to ObjectId failed")

(***************************************************************************)
(* authController / userController: the protected self-service routes.     *)
(***************************************************************************)
\* GET /api/auth/me
getMeResponse(in) ==
    LET user == protect(in.token) IN
    IF Rejected(UserRouter("getMe", in)) THEN UserRouter("getMe", in)
    ELSE IF user = NoPrincipal THEN Response("getMe", in, 404, "User not found")
    ELSE IF user.id = AdminId
    THEN InternalError("getMe", in, "user.getPublicProfile is not a function")
    ELSE [Response("getMe", in, 200, "") EXCEPT !.user = getPublicProfile(user.id, users[user.id])]

getMe(s, in) ==
    /\ Free(s)
    /\ Reply(s, getMeResponse(in))
    /\ UNCHANGED <<users, nextId, now, tokens, env, tmpFiles, mediaCount>>

\* POST /api/auth/logout
logoutResponse(in) ==
    IF Rejected(UserRouter("logout", in)) THEN UserRouter("logout", in)
    ELSE Response("logout", in, 200, "Logged out successfully")

\* a logout that ends the session by switching the account off
logoutRevoking(s, in) ==
    /\ Free(s)
    /\ Reply(s, logoutResponse(in))
    /\ users' = IF protect(in.token).id \in Ids
                THEN [users EXCEPT ![protect(in.token).id].isActive = FALSE]
                ELSE users
    /\ UNCHANGED <<nextId, now, tokens, env, tmpFiles, mediaCount>>

logout(s, in) ==
    /\ Free(s)
    /\ Reply(s, logoutResponse(in))
    /\ UNCHANGED <<users, nextId, now, tokens, env, tmpFiles, mediaCount>>

\* DELETE /api/user/profile
deleteProfile(s, in) ==
    /\ Free(s)
    /\ LET user == protect(in.token) IN
       IF Rejected(UserRouter("deleteProfile", in))
       THEN Reply(s, UserRouter("deleteProfile", in)) /\ UNCHANGED users
       ELSE IF user = NoPrincipal
       THEN Reply(s, TypeError("deleteProfile", in)) /\ UNCHANGED users
       ELSE IF user.id = AdminId
       THEN Reply(s, CastError("deleteProfile", in)) /\ UNCHANGED users
       ELSE /\ users' = Remove({user.id})
            /\ Reply(s, Response("deleteProfile", in, 200, "Account deleted successfully"))
    /\ UNCHANGED <<nextId, now, tokens, env, tmpFiles, mediaCount>>

\* PUT /api/user/deactivate
deactivateProfile(s, in) ==
    /\ Free(s)
    /\ LET user == protect(in.token) IN
       IF Rejected(UserRouter("deactivateProfile", in))
       THEN Reply(s, UserRouter("deactivateProfile", in)) /\ UNCHANGED users
       ELSE IF user = NoPrincipal
       THEN Reply(s, TypeError("deactivateProfile", in)) /\ UNCHANGED users
       ELSE IF user.id = AdminId
       THEN Reply(s, CastError("deactivateProfile", in)) /\ UNCHANGED users
       ELSE /\ users' = [users EXCEPT ![user.id].isActive = FALSE]
            /\ Reply(s, Response("deactivateProfile", in, 200, "Account deactivated successfully"))
    /\ UNCHANGED <<nextId, now, tokens, env, tmpFiles, mediaCount>>

\* req.user.userId: protect attaches the user record, or the admin
\* principal, and neither has a property userId
userId(principal) == Undefined

\* findByIdAndUpdate(undefined, ...): the filter { _id: undefined } matches
\* no document, or, with the undefined key dropped from the filter, any one
FindByUndefinedId == Ids \cup {NoId}

PhoneStartError(op, in) ==
    Response(op, in, 400, "Phone number must start with country code (e.g., +91 for India)")

PhoneFormatError(op, in) ==
    Response(op, in, 400,
        "Invalid phone number format. Please include country code (e.g., +911234567890)")

PhoneTaken(op, in) ==
    Response(op, in, 400, "Phone number already registered by another user")

UploadFailed(op, in) == Response(op, in, 500, "Failed to upload profile picture")

\* PUT /api/auth/phone up to the update: the checks and findOne
updatePhoneNumber(s, in) ==
    /\ Free(s)
    /\ LET gate == UserRouter("updatePhoneNumber", in)
           phoneNumber == in.body.phoneNumber
           p == StripPhone(phoneNumber)
       IN  IF Rejected(gate) THEN Reply(s, gate)
           ELSE IF FalsyPhone(phoneNumber)
           THEN Reply(s, Response("updatePhoneNumber", in, 400, "Phone number is required"))
           ELSE IF ~StartsWithPlus(p) THEN Reply(s, PhoneStartError("updatePhoneNumber", in))
           ELSE IF ~E164(p) THEN Reply(s, PhoneFormatError("updatePhoneNumber", in))
           ELSE IF FindByPhone(p, userId(protect(in.token))) # {}
           THEN Reply(s, PhoneTaken("updatePhoneNumber", in))
           ELSE Goto(s, Request("updatePhoneNumber", "update", in, protect(in.token),
                        [profilePictureUrl |-> NoUrl, processedPhoneNumber |-> p]))
    /\ UNCHANGED <<users, nextId, now, tokens, env, tmpFiles, mediaCount>>

\* User.findByIdAndUpdate(req.user.userId, { phoneNumber }, { runValidators: true })
updatePhoneNumber_update(s) ==
    /\ reqs[s].op = "updatePhoneNumber"
    /\ reqs[s].pc = "update"
    /\ LET in == reqs[s].in
           p == reqs[s].loc.processedPhoneNumber
       IN  \E id \in FindByUndefinedId :
              IF PhoneErrors(p) # <<>>
              THEN /\ Reply(s, [Response("updatePhoneNumber", in, 400, "Validation failed")
                                  EXCEPT !.errors = PhoneErrors(p)])
                   /\ UNCHANGED users
              ELSE IF id = NoId
              THEN /\ Reply(s, Response("updatePhoneNumber", in, 404, "User not found"))
                   /\ UNCHANGED users
              ELSE /\ users' = [users EXCEPT ![id].phoneNumber = p]
                   /\ Reply(s, Response("updatePhoneNumber", in, 200,
                             "Phone number updated successfully"))
    /\ UNCHANGED <<nextId, now, tokens, env, tmpFiles, mediaCount>>

\* PUT /api/auth/profile-picture: protect, uploadMiddleware, then the handler
updateProfilePicture(s, in) ==
    /\ Free(s)
    /\ LET gate == UserRouter("updateProfilePicture", in)
       IN  IF Rejected(gate) THEN Reply(s, gate) /\ UNCHANGED tmpFiles
           ELSE IF ~in.file
           THEN /\ Reply(s, Response("updateProfilePicture", in, 400, "Profile picture is required"))
                /\ UNCHANGED tmpFiles
           ELSE /\ Goto(s, Request("updateProfilePicture", "upload", in, protect(in.token),
                           [profilePictureUrl |-> NoUrl, processedPhoneNumber |-> UndefinedPhone]))
                /\ tmpFiles' = tmpFiles \cup {s}
    /\ UNCHANGED <<users, nextId, now, tokens, env, mediaCount>>

\* uploadToCloudinary returns; fs.unlinkSync only after a success
updateProfilePicture_upload(s) ==
    /\ reqs[s].op = "updateProfilePicture"
    /\ reqs[s].pc = "upload"
    /\ \E success \in BOOLEAN :
          IF success
          THEN /\ mediaCount < MaxUploads
               /\ mediaCount' = mediaCount + 1
               /\ tmpFiles' = tmpFiles \ {s}
               /\ Goto(s, [reqs[s] EXCEPT !.pc = "update",
                                          !.loc.profilePictureUrl = mediaCount + 1])
          ELSE /\ Reply(s, UploadFailed("updateProfilePicture", reqs[s].in))
               /\ UNCHANGED <<tmpFiles, mediaCount>>
    /\ UNCHANGED <<users, nextId, now, tokens, env>>

\* User.findByIdAndUpdate(req.user.userId, { profilePicture })
updateProfilePicture_update(s) ==
    /\ reqs[s].op = "updateProfilePicture"
    /\ reqs[s].pc = "update"
    /\ LET in == reqs[s].in
           url == reqs[s].loc.profilePictureUrl
       IN  \E id \in FindByUndefinedId :
              IF id = NoId
              THEN /\ Reply(s, Response("updateProfilePicture", in, 404, "User not found"))
                   /\ UNCHANGED users
              ELSE /\ users' = [users EXCEPT ![id].profilePicture = url]
                   /\ Reply(s, [Response("updateProfilePicture", in, 200,
                                    "Profile picture updated successfully")
                                  EXCEPT !.user = getPublicProfile(id,
                                             [users[id] EXCEPT !.profilePicture = url])])
    /\ UNCHANGED <<nextId, now, tokens, env, tmpFiles, mediaCount>>

\* editProfile from the phone processing up to the next await
EditProfileFindPhone(s, in, user, url) ==
    LET phoneNumber == in.body.phoneNumber
        p == StripPhone(phoneNumber)
    IN  IF FalsyPhone(phoneNumber)
        THEN Goto(s, Request("editProfile", "update", in, user,
                     [profilePictureUrl |-> url, processedPhoneNumber |-> phoneNumber]))
        ELSE IF ~StartsWithPlus(p) THEN Reply(s, PhoneStartError("editProfile", in))
        ELSE IF ~E164(p) THEN Reply(s, PhoneFormatError("editProfile", in))
        ELSE IF user.id = AdminId THEN Reply(s, CastError("editProfile", in))
        ELSE IF FindByPhone(p, user.id) # {} THEN Reply(s, PhoneTaken("editProfile", in))
        ELSE Goto(s, Request("editProfile", "update", in, user,
                     [profilePictureUrl |-> url, processedPhoneNumber |-> p]))

\* PUT /api/user/profile: protect, uploadMiddleware, then the handler
editProfile(s, in) ==
    /\ Free(s)
    /\ LET gate == UserRouter("editProfile", in)
       IN  IF Rejected(gate) THEN Reply(s, gate) /\ UNCHANGED tmpFiles
           ELSE IF in.file
           THEN /\ Goto(s, Request("editProfile", "upload", in, protect(in.token),
                           [profilePictureUrl |-> NoUrl, processedPhoneNumber |-> UndefinedPhone]))
                /\ tmpFiles' = tmpFiles \cup {s}
           ELSE /\ EditProfileFindPhone(s, in, protect(in.token), NoUrl)
                /\ UNCHANGED tmpFiles
    /\ UNCHANGED <<users, nextId, now, tokens, env, mediaCount>>

editProfile_upload(s) ==
    /\ reqs[s].op = "editProfile"
    /\ reqs[s].pc = "upload"
    /\ \E success \in BOOLEAN :
          IF success
          THEN /\ mediaCount < MaxUploads
               /\ mediaCount' = mediaCount + 1
               /\ tmpFiles' = tmpFiles \ {s}
               /\ EditProfileFindPhone(s, reqs[s].in, reqs[s].user, mediaCount + 1)
          ELSE /\ Reply(s, UploadFailed("editProfile", reqs[s].in))
               /\ UNCHANGED <<tmpFiles, mediaCount>>
    /\ UNCHANGED <<users, nextId, now, tokens, env>>

\* an update that also copies role and isActive from the body
EditProfileDataWithRole(doc, body, p, url) ==
    [ doc EXCEPT
        !.firstName = IF body.firstName # Undefined THEN body.firstName ELSE @,
        !.phoneNumber = IF p # UndefinedPhone THEN p ELSE @,
        !.profilePicture = IF url # NoUrl THEN url ELSE @,
        !.role = IF body.role # Undefined THEN body.role ELSE @,
        !.isActive = IF body.isActive # Undefined THEN body.isActive = "true" ELSE @ ]

\* updateData of editProfile: the fields the body carries
EditProfileData(doc, body, p, url) ==
    [ doc EXCEPT
        !.firstName = IF body.firstName # Undefined THEN body.firstName ELSE @,
        !.phoneNumber = IF p # UndefinedPhone THEN p ELSE @,
        !.profilePicture = IF url # NoUrl THEN url ELSE @ ]

\* User.findByIdAndUpdate(req.user._id, updateData, { runValidators: true })
editProfile_update(s) ==
    /\ reqs[s].op = "editProfile"
    /\ reqs[s].pc = "update"
    /\ LET in == reqs[s].in
           id == reqs[s].user.id
           p == reqs[s].loc.processedPhoneNumber
           url == reqs[s].loc.profilePictureUrl
           errs == (IF in.body.firstName # Undefined
                    THEN FirstNameErrors(in.body.firstName) ELSE <<>>) \o PhoneErrors(p)
       IN  IF id = AdminId
           THEN /\ Reply(s, CastError("editProfile", in))
                /\ tmpFiles' = tmpFiles \ {s}
                /\ UNCHANGED users
           ELSE IF errs # <<>>
           THEN /\ Reply(s, [Response("editProfile", in, 400, "Validation failed")
                               EXCEPT !.errors = errs])
                /\ tmpFiles' = tmpFiles \ {s}
                /\ UNCHANGED users
           ELSE IF id \notin Ids
           THEN /\ Reply(s, Response("editProfile", in, 404, "User not found"))
                /\ UNCHANGED <<users, tmpFiles>>
           ELSE /\ users' = [users EXCEPT ![id] = EditProfileData(@, in.body, p, url)]
                /\ UNCHANGED tmpFiles
                /\ Reply(s, [Response("editProfile", in, 200, "Profile updated successfully")
                               EXCEPT !.user = getPublicProfile(id,
                                          EditProfileData(users[id], in.body, p, url))])
    /\ UNCHANGED <<nextId, now, tokens, env, mediaCount>>

\* GET /api/user/profile/:id
getUserProfile(s, in) ==
    /\ Free(s)
    /\ LET gate == UserRouter("getUserProfile", in)
           id == in.id
       IN  IF Rejected(gate) THEN Reply(s, gate)
           ELSE IF id = AdminId THEN Reply(s, CastError("getUserProfile", in))
           ELSE IF id \notin Ids
           THEN Reply(s, Response("getUserProfile", in, 404, "User not found"))
           ELSE IF ~users[id].isActive
           THEN Reply(s, Response("getUserProfile", in, 404, "User profile not available"))
           ELSE Reply(s, [Response("getUserProfile", in, 200, "")
                            EXCEPT !.user = getPublicProfile(id, users[id])])
    /\ UNCHANGED <<users, nextId, now, tokens, env, tmpFiles, mediaCount>>

(***************************************************************************)
(* adminController: the user-management routes.  A body field is Undefined *)
(* when the request leaves it out; isActive is "true" or "false" for the   *)
(* JSON literals.                                                          *)
(***************************************************************************)
\* the JSON string 'false', which is not the literal false
StringFalse == "'false'"

\* JavaScript truthiness of req.body.isActive: a non-empty string is truthy
Truthy(b) == b \in {"true", StringFalse}

\* the Boolean that the schema type casts the value to
CastBoolean(b) == b = "true"

\* PUT /api/admin/users/:id up to the update: findById and the two lookups
updateUser(s, in) ==
    /\ Free(s)
    /\ LET gate == AdminRouter("updateUser", in)
           id == in.id
           body == in.body
       IN  IF Rejected(gate) THEN Reply(s, gate)
           ELSE IF id = AdminId THEN Reply(s, CastError("updateUser", in))
           ELSE IF id \notin Ids THEN Reply(s, Response("updateUser", in, 404, "User not found"))
           ELSE IF /\ ~Falsy(body.email)
                   /\ body.email # users[id].email
                   /\ FindByEmail(body.email) \ {id} # {}
           THEN Reply(s, Response("updateUser", in, 400, "Email already registered by another user"))
           ELSE IF /\ ~FalsyPhone(body.phoneNumber)
                   /\ body.phoneNumber # users[id].phoneNumber
                   /\ FindByPhone(body.phoneNumber, id) # {}
           THEN Reply(s, Response("updateUser", in, 400, "Phone number already registered by another user"))
           ELSE Goto(s, Request("updateUser", "update", in, protect(in.token), [id |-> id]))
    /\ UNCHANGED <<users, nextId, now, tokens, env, tmpFiles, mediaCount>>

\* updateData: only the fields the body carries
ApplyUpdate(doc, body) ==
    [ doc EXCEPT
        !.firstName = IF body.firstName # Undefined THEN body.firstName ELSE @,
        !.email = IF body.email # Undefined THEN CastEmail(body.email) ELSE @,
        !.phoneNumber = IF body.phoneNumber # UndefinedPhone THEN body.phoneNumber ELSE @,
        !.isActive = IF body.isActive # Undefined THEN CastBoolean(body.isActive) ELSE @,
        !.role = IF body.role # Undefined THEN body.role ELSE @ ]

\* runValidators: the validators of the paths that are set
UpdateErrors(body) ==
    (IF body.firstName # Undefined THEN FirstNameErrors(body.firstName) ELSE <<>>)
        \o (IF body.email # Undefined THEN EmailErrors(body.email) ELSE <<>>)
        \o PhoneErrors(body.phoneNumber)
        \o RoleErrors(body.role)

\* User.findByIdAndUpdate(id, updateData, { new: true, runValidators: true })
updateUser_update(s) ==
    /\ reqs[s].op = "updateUser"
    /\ reqs[s].pc = "update"
    /\ LET in == reqs[s].in
           id == in.id
           body == in.body
           errs == UpdateErrors(body)
       IN  IF errs # <<>>
           THEN /\ Reply(s, [Response("updateUser", in, 400, "Validation failed") EXCEPT !.errors = errs])
                /\ UNCHANGED users
           ELSE IF id \notin Ids
           THEN /\ Reply(s, Response("updateUser", in, 200, "User updated successfully"))
                /\ UNCHANGED users
           ELSE IF body.email # Undefined /\ EmailIndexRejects(CastEmail(body.email), id)
           THEN /\ Reply(s, Response("updateUser", in, 400, "Duplicate field value. Please check your input."))
                /\ UNCHANGED users
           ELSE /\ users' = [users EXCEPT ![id] = ApplyUpdate(@, body)]
                /\ Reply(s, [Response("updateUser", in, 200, "User updated successfully")
                               EXCEPT !.user = selectWithoutPassword(id, ApplyUpdate(users[id], body))])
    /\ UNCHANGED <<nextId, now, tokens, env, tmpFiles, mediaCount>>

\* DELETE /api/admin/users/:id
deleteUser(s, in) ==
    /\ Free(s)
    /\ LET gate == AdminRouter("deleteUser", in)
           id == in.id
       IN  IF Rejected(gate) THEN Reply(s, gate) /\ UNCHANGED users
           ELSE IF id = AdminId THEN Reply(s, CastError("deleteUser", in)) /\ UNCHANGED users
           ELSE IF id \notin Ids
           THEN Reply(s, Response("deleteUser", in, 404, "User not found")) /\ UNCHANGED users
           ELSE IF id = protect(in.token).id
           THEN Reply(s, Response("deleteUser", in, 400, "Cannot delete your own account"))
                /\ UNCHANGED users
           ELSE /\ users' = Remove({id})
                /\ Reply(s, Response("deleteUser", in, 200, "User deleted successfully"))
    /\ UNCHANGED <<nextId, now, tokens, env, tmpFiles, mediaCount>>

\* PUT /api/admin/users/:id/toggle-status; an undefined isActive is
\* stripped from the update, which then changes nothing
toggleUserStatus(s, in) ==
    /\ Free(s)
    /\ LET gate == AdminRouter("toggleUserStatus", in)
           id == in.id
           isActive == in.body.isActive
           statusText == IF Truthy(isActive) THEN "activated" ELSE "deactivated"
           after == IF isActive = Undefined THEN users[id]
                    ELSE [users[id] EXCEPT !.isActive = CastBoolean(isActive)]
       IN  IF Rejected(gate) THEN Reply(s, gate) /\ UNCHANGED users
           ELSE IF id = AdminId THEN Reply(s, CastError("toggleUserStatus", in)) /\ UNCHANGED users
           ELSE IF id \notin Ids
           THEN Reply(s, Response("toggleUserStatus", in, 404, "User not found")) /\ UNCHANGED users
           ELSE IF id = protect(in.token).id /\ ~Truthy(isActive)
           THEN Reply(s, Response("toggleUserStatus", in, 400, "Cannot deactivate your own account"))
                /\ UNCHANGED users
           ELSE /\ users' = [users EXCEPT ![id] = after]
                /\ Reply(s, [Response("toggleUserStatus", in, 200, "User " \o statusText \o " successfully")
                               EXCEPT !.user = selectWithoutPassword(id, after)])
    /\ UNCHANGED <<nextId, now, tokens, env, tmpFiles, mediaCount>>

\* POST /api/admin/users/bulk; userIds is the set of ids of the array
bulkOperations(s, in) ==
    /\ Free(s)
    /\ LET gate == AdminRouter("bulkOperations", in)
           operation == in.body.operation
           userIds == in.body.userIds
           hit == Ids \cap userIds
       IN  IF Rejected(gate) THEN Reply(s, gate) /\ UNCHANGED users
           ELSE IF Falsy(operation) \/ userIds = {}
           THEN Reply(s, Response("bulkOperations", in, 400, "Operation and user IDs are required"))
                /\ UNCHANGED users
           ELSE IF protect(in.token).id \in userIds
           THEN Reply(s, Response("bulkOperations", in, 400,
                     "Cannot perform bulk operations on your own account"))
                /\ UNCHANGED users
           ELSE IF operation \notin {"activate", "deactivate", "delete"}
           THEN Reply(s, Response("bulkOperations", in, 400,
                     "Invalid operation. Supported operations: activate, deactivate, delete"))
                /\ UNCHANGED users
           ELSE IF AdminId \in userIds
           THEN Reply(s, CastError("bulkOperations", in)) /\ UNCHANGED users
           ELSE IF operation = "delete"
           THEN /\ users' = Remove(hit)
                /\ Reply(s, Response("bulkOperations", in, 200, "users deleted successfully"))
           ELSE /\ users' = [i \in Ids |-> IF i \in hit
                                           THEN [users[i] EXCEPT !.isActive = (operation = "activate")]
                                           ELSE users[i]]
                /\ Reply(s, Response("bulkOperations", in, 200,
                          "users " \o operation \o "d successfully"))
    /\ UNCHANGED <<nextId, now, tokens, env, tmpFiles, mediaCount>>

\* the filter on isActive that getAllUsers and exportUsers build
StatusFilter(status) ==
    {i \in Ids : status = "all" \/ users[i].isActive = (status = "active")}

\* GET /api/admin/users: find(filter).select('-password'), formattedUsers
getAllUsers(s, in) ==
    /\ Free(s)
    /\ LET gate == AdminRouter("getAllUsers", in)
       IN  IF Rejected(gate) THEN Reply(s, gate)
           ELSE Reply(s, [Response("getAllUsers", in, 200, "")
                            EXCEPT !.users = {selectWithoutPassword(i, users[i]) :
                                                 i \in StatusFilter(in.status)}])
    /\ UNCHANGED <<users, nextId, now, tokens, env, tmpFiles, mediaCount>>

\* GET /api/admin/users/:id
getUserById(s, in) ==
    /\ Free(s)
    /\ LET gate == AdminRouter("getUserById", in)
           id == in.id
       IN  IF Rejected(gate) THEN Reply(s, gate)
           ELSE IF id = AdminId THEN Reply(s, CastError("getUserById", in))
           ELSE IF id \notin Ids
           THEN Reply(s, Response("getUserById", in, 404, "User not found"))
           ELSE Reply(s, [Response("getUserById", in, 200, "")
                            EXCEPT !.user = selectWithoutPassword(id, users[id])])
    /\ UNCHANGED <<users, nextId, now, tokens, env, tmpFiles, mediaCount>>

\* GET /api/admin/users/export, JSON format
exportUsers(s, in) ==
    /\ Free(s)
    /\ LET gate == AdminRouter("exportUsers", in)
       IN  IF Rejected(gate) THEN Reply(s, gate)
           ELSE Reply(s, [Response("exportUsers", in, 200, "")
                            EXCEPT !.users = {selectWithoutPassword(i, users[i]) :
                                                 i \in StatusFilter(in.status)}])
    /\ UNCHANGED <<users, nextId, now, tokens, env, tmpFiles, mediaCount>>

(***************************************************************************)
(* The clock.                                                              *)
(***************************************************************************)
Tick(days, horizon) ==
    /\ now + days <= horizon
    /\ now' = now + days
    /\ UNCHANGED <<users, nextId, tokens, env, reqs, resp, tmpFiles, mediaCount>>

(***************************************************************************)
(* Initial states: an empty collection, no request in flight.  The admin   *)
(* pair is read from the environment once; Init has it configured, and     *)
(* InitAnyEnv also starts with one or both of the two variables unset.     *)
(***************************************************************************)
ConfiguredEnv == [ADMIN_EMAIL |-> "root@x.io", ADMIN_PASSWORD |-> "adminpw"]

Envs ==
    [ADMIN_EMAIL : {"root@x.io", Undefined}, ADMIN_PASSWORD : {"adminpw", Undefined}]

InitStore ==
    /\ users = [i \in {} |-> NoProfile]
    /\ nextId = 0
    /\ now = 0
    /\ tokens = {}
    /\ reqs = [s \in Slots |-> Idle]
    /\ resp = [s \in Slots |-> NoResponse]
    /\ tmpFiles = {}
    /\ mediaCount = 0

Init == InitStore /\ env = ConfiguredEnv

InitAnyEnv == InitStore /\ env \in Envs

(***************************************************************************)
(* Concurrent signups: every client sends one signup and keeps the         *)
(* response; the steps of the requests interleave freely.                  *)
(***************************************************************************)
Phone12 == <<"+", "1", "2">>
Phone12Spaced == <<"+", "1", " ", "2">>

RaceSignups ==
    [ firstName : {"Ann"},
      email : {"a@x.io", " A@X.io", "b@x.io"},
      password : {"secret1"},
      phoneNumber : {UndefinedPhone, Phone12, Phone12Spaced},
      file : {FALSE} ]

RaceNext ==
    \/ \E s \in Slots : \E in \in RaceSignups : signup(s, in)
    \/ \E s \in Slots : signup_findPhone(s)
    \/ \E s \in Slots : signup_save(s)

SpecRace == Init /\ [][RaceNext]_vars

(***************************************************************************)
(* Admin login alone, under every configuration of the admin pair.         *)
(***************************************************************************)
AdminLoginInputs ==
    [email : {"root@x.io", "eve@x.io", Undefined}, password : {"adminpw", "guess", ""}]

AdminLoginNext ==
    \/ \E s \in Slots : \E in \in AdminLoginInputs : adminLogin(s, in)
    \/ \E s \in Slots : Receive(s)

SpecAdminLogin == InitAnyEnv /\ [][AdminLoginNext]_vars

(***************************************************************************)
(* Accounts, tokens and the protected routes: one client signs up, logs    *)
(* in as admin, and manages accounts with the tokens it holds.             *)
(***************************************************************************)
ForgedToken ==
    [ userId |-> AdminId, email |-> "root@x.io", role |-> "admin",
      iat |-> 0, exp |-> UserTokenDays, sig |-> "guess" ]

Presented == tokens \cup {NoToken, ForgedToken}

TargetIds == {ObjectId(n) : n \in 1..MaxUsers} \cup {AdminId}

AuthSignups ==
    [ firstName : {"Ann"}, email : {"a@x.io", "b@x.io"}, password : {"secret1"},
      phoneNumber : {UndefinedPhone}, file : {FALSE} ]

NoBody ==
    [ firstName |-> Undefined, email |-> Undefined, phoneNumber |-> UndefinedPhone,
      isActive |-> Undefined, role |-> Undefined ]

AuthUpdates ==
    { [NoBody EXCEPT !.isActive = "false"],
      [NoBody EXCEPT !.isActive = "true"],
      [NoBody EXCEPT !.role = "admin"] }

AuthBulks ==
    [operation : {"activate", "deactivate", "delete"}, userIds : {{ObjectId(1)}, {ObjectId(1), ObjectId(2)}}]

Client == CHOOSE s \in Slots : TRUE

AuthNext ==
    \/ \E in \in AuthSignups : signup(Client, in)
    \/ signup_save(Client)
    \/ adminLogin(Client, [email |-> "root@x.io", password |-> "adminpw"])
    \/ \E t \in Presented : getMe(Client, [token |-> t])
    \/ \E t \in Presented : logout(Client, [token |-> t])
    \/ \E t \in Presented : deleteProfile(Client, [token |-> t])
    \/ \E t \in Presented : deactivateProfile(Client, [token |-> t])
    \/ \E t \in Presented : \E id \in TargetIds : \E body \in AuthUpdates :
          updateUser(Client, [token |-> t, id |-> id, body |-> body])
    \/ updateUser_update(Client)
    \/ \E t \in Presented : \E id \in TargetIds :
          deleteUser(Client, [token |-> t, id |-> id])
    \/ \E t \in Presented : \E id \in TargetIds : \E a \in {"true", "false", Undefined} :
          toggleUserStatus(Client, [token |-> t, id |-> id, body |-> [isActive |-> a]])
    \/ \E t \in Presented : \E body \in AuthBulks :
          bulkOperations(Client, [token |-> t, body |-> body])
    \/ Receive(Client)

Spec == Init /\ [][AuthNext]_vars

(***************************************************************************)
(* Signup and login: the clients sign up, log in and deactivate their      *)
(* accounts while the clock advances.                                      *)
(***************************************************************************)
LoginSignups ==
    [ firstName : {"Ann"}, email : {"a@x.io"}, password : {"secret1", ""},
      phoneNumber : {UndefinedPhone}, file : {FALSE} ]

Logins ==
    [email : {" A@X.io", "b@x.io"}, password : {"secret1", "guess", ""}]

LoginNext ==
    \/ \E s \in Slots : \E in \in LoginSignups : signup(s, in)
    \/ \E s \in Slots : signup_save(s)
    \/ \E s \in Slots : \E in \in Logins : login(s, in)
    \/ \E s \in Slots : login_save(s)
    \/ \E s \in Slots : \E t \in tokens : deactivateProfile(s, [token |-> t])
    \/ \E s \in Slots : Receive(s)
    \/ Tick(1, MaxDays)

SpecLogin == Init /\ [][LoginNext]_vars

(***************************************************************************)
(* Token lifetimes: tokens are issued during the first MaxDays days and    *)
(* presented on a protected route while the clock runs to the horizon.     *)
(***************************************************************************)
Horizon == 32

TokenSignup ==
    [ firstName |-> "Ann", email |-> "a@x.io", password |-> "secret1",
      phoneNumber |-> UndefinedPhone, file |-> FALSE ]

TokenNext ==
    \/ now <= MaxDays /\ signup(Client, TokenSignup)
    \/ signup_save(Client)
    \/ now <= MaxDays /\ login(Client, [email |-> "a@x.io", password |-> "secret1"])
    \/ login_save(Client)
    \/ now <= MaxDays /\ adminLogin(Client, [email |-> "root@x.io", password |-> "adminpw"])
    \/ \E t \in tokens : getMe(Client, [token |-> t])
    \/ \E t \in tokens : deactivateProfile(Client, [token |-> t])
    \/ Receive(Client)
    \/ Tick(1, Horizon)

SpecToken == Init /\ [][TokenNext]_vars

(***************************************************************************)
(* Profiles: one client signs up, logs in, edits its profile and picture,  *)
(* and as admin reads, lists, exports and updates the accounts.            *)
(***************************************************************************)
ProfileSignup ==
    [ firstName |-> "Ann", email |-> "a@x.io", password |-> "secret1",
      phoneNumber |-> UndefinedPhone, file |-> FALSE ]

ProfileEdits ==
    [firstName : {Undefined, "Bea"}, phoneNumber : {UndefinedPhone, Phone12}]

ProfileNext ==
    \/ signup(Client, ProfileSignup)
    \/ signup_save(Client)
    \/ login(Client, [email |-> "a@x.io", password |-> "secret1"])
    \/ login_save(Client)
    \/ adminLogin(Client, [email |-> "root@x.io", password |-> "adminpw"])
    \/ \E t \in tokens : getMe(Client, [token |-> t])
    \/ \E t \in tokens : \E body \in ProfileEdits : \E file \in BOOLEAN :
          editProfile(Client, [token |-> t, body |-> body, file |-> file])
    \/ editProfile_upload(Client)
    \/ editProfile_update(Client)
    \/ \E t \in tokens : \E file \in BOOLEAN :
          updateProfilePicture(Client, [token |-> t, file |-> file])
    \/ updateProfilePicture_upload(Client)
    \/ updateProfilePicture_update(Client)
    \/ \E t \in tokens : \E id \in TargetIds : getUserProfile(Client, [token |-> t, id |-> id])
    \/ \E t \in tokens : \E status \in {"all", "active", "inactive"} :
          getAllUsers(Client, [token |-> t, status |-> status])
    \/ \E t \in tokens : \E id \in TargetIds : getUserById(Client, [token |-> t, id |-> id])
    \/ \E t \in tokens : \E status \in {"all", "active", "inactive"} :
          exportUsers(Client, [token |-> t, status |-> status])
    \/ \E t \in tokens : \E id \in TargetIds : \E body \in AuthUpdates :
          updateUser(Client, [token |-> t, id |-> id, body |-> body])
    \/ updateUser_update(Client)
    \/ \E t \in tokens : \E id \in TargetIds : \E a \in {"true", "false"} :
          toggleUserStatus(Client, [token |-> t, id |-> id, body |-> [isActive |-> a]])
    \/ Receive(Client)

SpecProfile == Init /\ [][ProfileNext]_vars

(***************************************************************************)
(* Signups with passwords of every length around the minimum.              *)
(***************************************************************************)
PasswordSignups ==
    [ firstName : {"Ann"}, email : {"a@x.io", "b@x.io"},
      password : {"", "abc", "12345", "123456", "secret1"},
      phoneNumber : {UndefinedPhone}, file : {FALSE} ]

PasswordNext ==
    \/ \E s \in Slots : \E in \in PasswordSignups : signup(s, in)
    \/ \E s \in Slots : signup_save(s)
    \/ \E s \in Slots : Receive(s)

SpecPassword == Init /\ [][PasswordNext]_vars

(***************************************************************************)
(* Phone numbers: every string made of a short prefix over '+', '0', '1'   *)
(* and '-' followed by up to MaxPad digits is sent to the three handlers   *)
(* that validate a phone number.                                           *)
(***************************************************************************)
MaxPrefix == 2
MaxPad == 15

Pad(k) == [i \in 1..k |-> "5"]

PhonePrefixes ==
    UNION {[1..n -> {"+", "0", "1", "-"}] : n \in 0..MaxPrefix}

\* the lengths on either side of the pattern's {1,14}
PadLengths == {0, 1, MaxPad - 2, MaxPad - 1, MaxPad}

PhoneInputs == {q \o Pad(k) : q \in PhonePrefixes, k \in PadLengths}

PhoneNext ==
    \/ \E p \in PhoneInputs :
          signup(Client, [ firstName |-> "Ann", email |-> "a@x.io", password |-> "secret1",
                           phoneNumber |-> p, file |-> FALSE ])
    \/ signup_findPhone(Client)
    \/ signup_save(Client)
    \/ \E t \in tokens : \E p \in PhoneInputs :
          updatePhoneNumber(Client, [token |-> t, body |-> [phoneNumber |-> p]])
    \/ updatePhoneNumber_update(Client)
    \/ \E t \in tokens : \E p \in PhoneInputs :
          editProfile(Client, [ token |-> t, file |-> FALSE,
                                body |-> [firstName |-> Undefined, phoneNumber |-> p] ])
    \/ editProfile_update(Client)
    \/ Receive(Client)

SpecPhone == Init /\ [][PhoneNext]_vars

\* signups and profile edits whose fields are valid or invalid one by one,
\* with and without a picture
FieldNext ==
    \/ \E in \in [ firstName : {"Ann", ""}, email : {"a@x.io", "b@x.io", "nomail"},
                   password : {"secret1"},
                   phoneNumber : {UndefinedPhone, Phone12, <<"1", "2">>},
                   file : BOOLEAN ] :
          signup(Client, in)
    \/ signup_upload(Client)
    \/ signup_findPhone(Client)
    \/ signup_save(Client)
    \/ \E t \in tokens : \E f \in BOOLEAN :
       \E b \in [ firstName : {Undefined, "Bea", ""},
                  phoneNumber : {UndefinedPhone, Phone12, <<"1", "2">>} ] :
          editProfile(Client, [token |-> t, file |-> f, body |-> b])
    \/ editProfile_upload(Client)
    \/ editProfile_update(Client)
    \/ \E t \in tokens : \E f \in BOOLEAN :
          updateProfilePicture(Client, [token |-> t, file |-> f])
    \/ updateProfilePicture_upload(Client)
    \/ updateProfilePicture_update(Client)
    \/ Receive(Client)

SpecFields == Init /\ [][FieldNext]_vars

(***************************************************************************)
(* The administrator and the accounts: every user-management and           *)
(* self-service route, with user tokens and admin tokens, addressed to     *)
(* accounts and to the sentinel id.                                        *)
(***************************************************************************)
PrincipalNext ==
    \/ \E in \in AuthSignups : signup(Client, in)
    \/ signup_save(Client)
    \/ \E in \in AdminLoginInputs : adminLogin(Client, in)
    \/ \E t \in Presented : \E st \in {"all", "active"} :
          getAllUsers(Client, [token |-> t, status |-> st])
    \/ \E t \in Presented : \E id \in TargetIds : getUserById(Client, [token |-> t, id |-> id])
    \/ \E t \in Presented : \E id \in TargetIds : \E body \in AuthUpdates :
          updateUser(Client, [token |-> t, id |-> id, body |-> body])
    \/ updateUser_update(Client)
    \/ \E t \in Presented : \E id \in TargetIds :
          deleteUser(Client, [token |-> t, id |-> id])
    \/ \E t \in Presented : \E id \in TargetIds : \E a \in {"true", "false"} :
          toggleUserStatus(Client, [token |-> t, id |-> id, body |-> [isActive |-> a]])
    \/ \E t \in Presented : \E ids \in {{ObjectId(1)}, {AdminId}, {ObjectId(1), AdminId}} :
       \E o \in {"deactivate", "delete"} :
          bulkOperations(Client, [token |-> t, body |-> [operation |-> o, userIds |-> ids]])
    \/ \E t \in Presented : exportUsers(Client, [token |-> t, status |-> "all"])
    \/ \E t \in Presented :
          editProfile(Client, [ token |-> t, file |-> FALSE,
                                body |-> [firstName |-> "Bea", phoneNumber |-> UndefinedPhone] ])
    \/ editProfile_update(Client)
    \/ \E t \in Presented : deleteProfile(Client, [token |-> t])
    \/ \E t \in Presented : deactivateProfile(Client, [token |-> t])
    \/ Receive(Client)

SpecPrincipal == Init /\ [][PrincipalNext]_vars

(***************************************************************************)
(* Admin tokens: the admin logs in and uses the admin routes while         *)
(* accounts come and go and the clock advances.                            *)
(***************************************************************************)
AdminTokenNext ==
    \/ \E in \in AuthSignups : signup(Client, in)
    \/ signup_save(Client)
    \/ adminLogin(Client, [email |-> "root@x.io", password |-> "adminpw"])
    \/ \E t \in Presented : getAllUsers(Client, [token |-> t, status |-> "all"])
    \/ \E t \in Presented : \E id \in TargetIds : getUserById(Client, [token |-> t, id |-> id])
    \/ \E t \in Presented : \E id \in TargetIds : deleteUser(Client, [token |-> t, id |-> id])
    \/ \E t \in Presented : exportUsers(Client, [token |-> t, status |-> "all"])
    \/ Receive(Client)
    \/ Tick(1, MaxDays)

SpecAdminToken == Init /\ [][AdminTokenNext]_vars

(***************************************************************************)
(* Administrators with a record: the configured admin gives an account     *)
(* the admin role, and that account then uses the admin routes on itself   *)
(* and on others.                                                          *)
(***************************************************************************)
StoredAdminNext ==
    \/ \E in \in AuthSignups : signup(Client, in)
    \/ signup_save(Client)
    \/ adminLogin(Client, [email |-> "root@x.io", password |-> "adminpw"])
    \/ \E t \in tokens : getAllUsers(Client, [token |-> t, status |-> "all"])
    \/ \E t \in tokens : \E id \in TargetIds :
       \E body \in AuthUpdates \cup {[NoBody EXCEPT !.role = "user"]} :
          updateUser(Client, [token |-> t, id |-> id, body |-> body])
    \/ updateUser_update(Client)
    \/ \E t \in tokens : \E id \in TargetIds :
          deleteUser(Client, [token |-> t, id |-> id])
    \/ \E t \in tokens : \E id \in TargetIds : \E a \in {"true", "false", StringFalse, Undefined} :
          toggleUserStatus(Client, [token |-> t, id |-> id, body |-> [isActive |-> a]])
    \/ \E t \in tokens : \E body \in AuthBulks :
          bulkOperations(Client, [token |-> t, body |-> body])
    \/ Receive(Client)

SpecStoredAdmin == Init /\ [][StoredAdminNext]_vars

(***************************************************************************)
(* Self-service: two accounts sign up, log in and use the routes of        *)
(* routes/user.js and the protected routes of the auth router; no admin    *)
(* route is used.  The bodies also carry role and isActive.                *)
(***************************************************************************)
Phone34 == <<"+", "3", "4">>

SelfServiceNext ==
    \/ \E e \in {"a@x.io", "b@x.io"} :
          signup(Client, [ firstName |-> "Ann", email |-> e, password |-> "secret1",
                           phoneNumber |-> UndefinedPhone, file |-> FALSE,
                           role |-> "admin", isActive |-> "true" ])
    \/ signup_save(Client)
    \/ login(Client, [email |-> "a@x.io", password |-> "secret1"])
    \/ login_save(Client)
    \/ \E t \in tokens : getMe(Client, [token |-> t])
    \/ \E t \in tokens : logout(Client, [token |-> t])
    \/ \E t \in tokens : \E p \in {Phone12, Phone34} :
          updatePhoneNumber(Client, [ token |-> t,
                                      body |-> [phoneNumber |-> p, role |-> "admin",
                                                isActive |-> "true"] ])
    \/ updatePhoneNumber_update(Client)
    \/ \E t \in tokens : \E f \in BOOLEAN :
          updateProfilePicture(Client, [token |-> t, file |-> f])
    \/ updateProfilePicture_upload(Client)
    \/ updateProfilePicture_update(Client)
    \/ \E t \in tokens : \E n \in {Undefined, "Bea"} : \E p \in {UndefinedPhone, Phone12} :
          editProfile(Client, [ token |-> t, file |-> FALSE,
                                body |-> [firstName |-> n, phoneNumber |-> p,
                                          role |-> "admin", isActive |-> "true"] ])
    \/ editProfile_update(Client)
    \/ \E t \in tokens : deleteProfile(Client, [token |-> t])
    \/ \E t \in tokens : deactivateProfile(Client, [token |-> t])
    \/ Receive(Client)

SpecSelfService == Init /\ [][SelfServiceNext]_vars

(***************************************************************************)
(* Properties.                                                             *)
(***************************************************************************)
StoredEmails == {"a@x.io", "b@x.io"}

SignupsDone(e) ==
    {s \in Slots : resp[s].op = "signup" /\ CastEmail(resp[s].in.email) = e}

SignupsInFlight(e) ==
    {s \in Slots : reqs[s].op = "signup" /\ CastEmail(reqs[s].in.email) = e}

Created(e) == {s \in SignupsDone(e) : resp[s].status = 201}

EmailDuplicate(r) ==
    /\ r.status = 400
    /\ r.message \in {"User with this email already exists", "Email already exists"}

\* C1: of the signups that carry the same email and are acceptable apart
\* from it, run in any interleaving of their lookups and saves, exactly one
\* answers 201 and creates the record; every other one answers 400 with the
\* duplicate-email message; the collection never holds two records with
\* that email.
C1_OneSignupPerEmail ==
    \A e \in StoredEmails :
        /\ Cardinality(FindByEmail(e)) <= 1
        /\ Cardinality(Created(e)) <= 1
        /\ ( /\ SignupsInFlight(e) = {}
             /\ SignupsDone(e) # {}
             /\ \A s \in SignupsDone(e) : resp[s].status = 201 \/ EmailDuplicate(resp[s]) )
           => /\ Cardinality(Created(e)) = 1
              /\ Cardinality(FindByEmail(e)) = 1
              /\ \A s \in Created(e) : resp[s].user.id \in FindByEmail(e)

\* two signups with one email both passed the lookup; the index stopped the second save
C1_Witness ==
    \E s, t \in Slots :
        /\ s # t
        /\ resp[s].op = "signup" /\ resp[s].status = 201
        /\ resp[t].op = "signup" /\ resp[t].message = "Email already exists"
        /\ CastEmail(resp[s].in.email) = CastEmail(resp[t].in.email)

\* C2: in every reachable state no two user records hold the same phone
\* number, and of the requests that set one phone number at most one succeeds.
C2_PhoneUnique ==
    /\ \A i, j \in Ids :
          i # j /\ ~FalsyPhone(users[i].phoneNumber)
              => users[i].phoneNumber # users[j].phoneNumber
    /\ \A s, t \in Slots :
          ( /\ s # t
            /\ resp[s].op = "signup" /\ resp[s].status = 201
            /\ resp[t].op = "signup" /\ resp[t].status = 201
            /\ ~FalsyPhone(resp[s].user.phoneNumber) )
              => resp[s].user.phoneNumber # resp[t].user.phoneNumber

UserRouteOps == {"getMe", "logout", "deleteProfile", "deactivateProfile"}
AdminRouteOps == {"updateUser", "deleteUser", "toggleUserStatus", "bulkOperations"}

\* the record a user token names is deleted or deactivated
Revoked(t) ==
    /\ t.userId # AdminId
    /\ t.userId \notin Ids \/ ~users[t.userId].isActive

\* C3 as stated: once the record of a token has been deactivated or deleted,
\* every later request that presents the token is rejected.
C3_RejectedEverAfter ==
    [][\A t \in tokens :
          (verify(t) /\ protect(t) = NoPrincipal) => (protect(t) = NoPrincipal)']_vars

\* C3: a request on a protected route that presents an unexpired token
\* whose record is, when the request arrives, deleted or deactivated is
\* answered 401 and its handler changes nothing; the token of a record
\* that is active is not answered 401.
C3_RevokedTokenRejected ==
    [][\A s \in Slots :
          (Free(s) /\ resp'[s].op \in UserRouteOps \cup AdminRouteOps) =>
              LET t == resp'[s].in.token IN
              /\ (verify(t) /\ Revoked(t)) => (resp'[s].status = 401 /\ UNCHANGED users)
              /\ (verify(t) /\ ~Revoked(t) /\ t.userId # AdminId) => resp'[s].status # 401]_vars

\* the token of a deactivated account was presented and refused
C3_Witness ==
    \E s \in Slots :
        /\ resp[s].op \in UserRouteOps
        /\ resp[s].status = 401
        /\ verify(resp[s].in.token)
        /\ resp[s].in.token.userId \in Ids
        /\ ~users[resp[s].in.token.userId].isActive

\* C4: a request on an admin route other than the login runs its handler
\* only for an authenticated principal whose role is admin; an authenticated
\* principal of another role is answered 403, a request without a valid
\* token 401.
C4_AdminGate ==
    [][\A s \in Slots :
          /\ reqs[s].op \in AdminRouteOps => reqs[s].user.role = "admin"
          /\ (Free(s) /\ (resp'[s].op \in AdminRouteOps \/ reqs'[s].op \in AdminRouteOps)) =>
                LET in == IF reqs'[s].op # "idle" THEN reqs'[s].in ELSE resp'[s].in
                    p == protect(in.token)
                IN  /\ p = NoPrincipal => (resp'[s].status = 401 /\ UNCHANGED users)
                    /\ (p # NoPrincipal /\ p.role # "admin")
                          => (resp'[s].status = 403 /\ UNCHANGED users)
                    /\ p.role = "admin" => resp'[s].status \notin {401, 403}
                    /\ (users' # users \/ reqs'[s].op # "idle") => p.role = "admin"]_vars

\* an active user of role user was answered 403 on an admin route
C4_Witness ==
    \E s \in Slots :
        /\ resp[s].op \in AdminRouteOps
        /\ resp[s].status = 403
        /\ protect(resp[s].in.token) # NoPrincipal
        /\ protect(resp[s].in.token).role = "user"

\* C8: logout changes no server state: the collection and the tokens are
\* the same before and after it, every token is accepted after it exactly
\* when it was accepted before, and the token presented at a successful
\* logout is still accepted.
C8_LogoutChangesNothing ==
    [][\A s \in Slots :
          (Free(s) /\ resp'[s].op = "logout") =>
              /\ UNCHANGED <<users, nextId, now, tokens, env, tmpFiles, mediaCount>>
              /\ \A t \in tokens :
                    /\ (protect(t))' = protect(t)
                    /\ (resp'[s].status = 200 /\ resp'[s].in.token = t)
                          => (protect(t))' # NoPrincipal
              /\ resp'[s].status = 200 => resp'[s].in.token \in tokens]_vars

\* a user logged out and the token is still accepted
C8_Witness ==
    \E s \in Slots :
        /\ resp[s].op = "logout"
        /\ resp[s].status = 200
        /\ resp[s].in.token.userId # AdminId
        /\ protect(resp[s].in.token) # NoPrincipal

Configured == ~Falsy(env.ADMIN_EMAIL) /\ ~Falsy(env.ADMIN_PASSWORD)

\* what the client sees of a response
Body(r) ==
    [ status |-> r.status, message |-> r.message, errors |-> r.errors,
      error |-> r.error, token |-> r.token, user |-> r.user, users |-> r.users ]

WrongPassword(r) ==
    /\ r.op = "adminLogin"
    /\ r.in.email = env.ADMIN_EMAIL
    /\ ~Falsy(r.in.password)
    /\ r.in.password # env.ADMIN_PASSWORD

WrongEmail(r) ==
    /\ r.op = "adminLogin"
    /\ ~Falsy(r.in.email)
    /\ r.in.email # env.ADMIN_EMAIL
    /\ r.in.password = env.ADMIN_PASSWORD

\* C5: with the admin pair configured, an admin login that supplies the
\* right email and a wrong password and one that supplies the right
\* password and a wrong email are answered alike: 401, 'Invalid admin
\* credentials', no token.
C5_SameAnswerForEitherField ==
    Configured =>
        /\ \A s \in Slots :
              WrongPassword(resp[s]) \/ WrongEmail(resp[s]) =>
                  /\ resp[s].status = 401
                  /\ resp[s].message = "Invalid admin credentials"
                  /\ resp[s].token = NoToken
        /\ \A s, t \in Slots :
              WrongPassword(resp[s]) /\ WrongEmail(resp[t]) => Body(resp[s]) = Body(resp[t])

\* one client sent a wrong password, the other a wrong email
C5_Witness ==
    /\ Configured
    /\ \E s, t \in Slots : WrongPassword(resp[s]) /\ WrongEmail(resp[t])

\* C6 as stated: with the admin email or password absent from the
\* environment, every admin login is answered with a 500-class error.
C6_AlwaysConfigurationError ==
    ~Configured =>
        \A s \in Slots : resp[s].op = "adminLogin" => resp[s].status >= 500

\* C6: with the admin email or password absent from the environment, an
\* admin login that supplies an email and a password is answered 500
\* 'Admin configuration error', one that lacks either is answered 400, and
\* no token is issued.
C6_NoLoginWithoutAdminPair ==
    ~Configured =>
        /\ tokens = {}
        /\ \A s \in Slots :
              resp[s].op = "adminLogin" =>
                  /\ resp[s].token = NoToken
                  /\ IF Falsy(resp[s].in.email) \/ Falsy(resp[s].in.password)
                     THEN resp[s].status = 400
                     ELSE /\ resp[s].status = 500
                          /\ resp[s].message = "Admin configuration error"

\* the configured half of the pair was presented and the login still failed
C6_Witness ==
    /\ env.ADMIN_EMAIL = "root@x.io"
    /\ Falsy(env.ADMIN_PASSWORD)
    /\ \E s \in Slots :
          /\ resp[s].op = "adminLogin"
          /\ resp[s].in.email = "root@x.io"
          /\ resp[s].in.password = "adminpw"
          /\ resp[s].status = 500

\* C7: a request that presents the token of a still-active principal on a
\* protected route is answered 401 exactly when more than 30 days (user
\* token, issued by signup or login) or more than 1 day (admin token) have
\* passed since the token was issued.
C7_TokenLifetime ==
    [][\A s \in Slots :
          (Free(s) /\ resp'[s].op \in UserRouteOps) =>
              \A t \in {resp'[s].in.token} \cap {u \in tokens : ~Revoked(u)} :
                  (resp'[s].status = 401
                      <=> now - t.iat > (IF t.userId = AdminId THEN 1 ELSE 30))]_vars

\* the token of an active user was refused on the 31st day after its issue
C7_Witness ==
    \E s \in Slots :
        /\ resp[s].op = "getMe"
        /\ resp[s].status = 401
        /\ resp[s].in.token.userId \in Ids
        /\ users[resp[s].in.token.userId].isActive
        /\ now = resp[s].in.token.iat + 31

\* the login request that a step takes in or answers on arrival
Arriving(s) == IF reqs'[s].op = "login" THEN reqs'[s].in ELSE resp'[s].in

InvalidCredentials(in) == Response("login", in, 401, "Invalid email or password")

UnknownEmail(in) ==
    ~Falsy(in.email) /\ ~Falsy(in.password) /\ FindByEmail(in.email) = {}

WrongUserPassword(in) ==
    /\ ~Falsy(in.email) /\ ~Falsy(in.password)
    /\ \E i \in FindByEmail(in.email) :
          users[i].isActive /\ ~Compare(in.password, users[i].password)

\* C9: a login that supplies an email matching no record and a login that
\* supplies the email of an active user and a wrong password get the same
\* response, 401 'Invalid email or password' without a token, and neither
\* changes the collection or the tokens.
C9_SameAnswerForUnknownAndWrong ==
    [][\A s \in Slots :
          ( /\ Free(s)
            /\ reqs'[s].op = "login" \/ resp'[s].op = "login"
            /\ UnknownEmail(Arriving(s)) \/ WrongUserPassword(Arriving(s)) ) =>
                  /\ resp'[s].op = "login"
                  /\ Body(resp'[s]) = Body(InvalidCredentials(Arriving(s)))
                  /\ UNCHANGED <<users, nextId, tokens>>]_vars

\* one client was refused for an unknown email, the other for a wrong password
C9_Witness ==
    \E s, t \in Slots :
        /\ resp[s].op = "login" /\ resp[s].status = 401
        /\ FindByEmail(resp[s].in.email) = {}
        /\ resp[t].op = "login" /\ resp[t].status = 401
        /\ \E i \in FindByEmail(resp[t].in.email) :
              users[i].isActive /\ ~Compare(resp[t].in.password, users[i].password)
        /\ Body(resp[s]) = Body(resp[t])

\* the record that a signup with these credentials created, still active
Registered(in) ==
    {i \in Ids : /\ users[i].email = CastEmail(in.email)
                 /\ users[i].password = Hash(in.password)
                 /\ users[i].isActive}

\* C10: a login with the email and password of a signup that succeeded,
\* while the record is active and its credentials are unchanged, is accepted
\* and answered 200 with a token for the id of the record, and sets
\* lastLoginAt of the record to the time of the login; a login that is not
\* answered 200 changes no record.
C10_LoginAfterSignup ==
    [][\A s \in Slots :
          /\ (Free(s) /\ (reqs'[s].op = "login" \/ resp'[s].op = "login")) =>
                \A i \in Registered(Arriving(s)) :
                    /\ reqs'[s].op = "login"
                    /\ reqs'[s].loc.id = i
          /\ (reqs[s].op = "login" /\ resp'[s].op = "login") =>
                \A i \in Registered(reqs[s].in) \cap {reqs[s].loc.id} :
                    /\ resp'[s].status = 200
                    /\ resp'[s].token.userId = i
                    /\ resp'[s].token \in tokens' \/ Cardinality(tokens) = MaxTokens
                    /\ users'[i].lastLoginAt = now
          /\ (resp[s].op = "none" /\ resp'[s].op = "login" /\ resp'[s].status # 200) =>
                UNCHANGED users]_vars

\* C11: no response of any handler carries the password of a user: neither
\* the user of the response body nor any user of a listed or exported
\* collection has a password field.
C11_NoPasswordInResponses ==
    \A s \in Slots :
        /\ "password" \notin DOMAIN resp[s].user
        /\ \A u \in resp[s].users : "password" \notin DOMAIN u

\* an admin read a stored record, which holds a hash, and the body has none
C11_Witness ==
    \E s \in Slots :
        /\ resp[s].op = "getUserById"
        /\ resp[s].status = 200
        /\ resp[s].user.id \in Ids
        /\ "password" \in DOMAIN users[resp[s].user.id]
        /\ users[resp[s].user.id].password = Hash("secret1")

\* C12: a signup whose plaintext password has fewer than 6 characters is
\* answered 400 with a validation message, and every signup that created a
\* record had a password of at least 6 characters.
C12_ShortPasswordRejected ==
    \A s \in Slots :
        resp[s].op = "signup" =>
            /\ Len(resp[s].in.password) < 6 =>
                  (resp[s].status = 400 /\ resp[s].errors # <<>>)
            /\ resp[s].status = 201 => Len(resp[s].in.password) >= 6

PhoneOps == {"signup", "updatePhoneNumber", "editProfile"}

\* the phone number a request of one of the three handlers carries
PhoneOf(in) == IF "body" \in DOMAIN in THEN in.body.phoneNumber ELSE in.phoneNumber

\* '+', a digit 1-9, then 1 to 14 more digits
WellFormedPhone(p) ==
    /\ Len(p) \in 3..16
    /\ p[1] = "+"
    /\ p[2] \in {"1", "2", "3", "4", "5", "6", "7", "8", "9"}
    /\ \A i \in 3..Len(p) : p[i] \in Digits

LacksLeadingPlus(p) == StripPhone(p) = <<>> \/ StripPhone(p)[1] # "+"

NonDigitAfterStripping(p) ==
    \E i \in 2..Len(StripPhone(p)) : StripPhone(p)[i] \notin Digits

\* the response is one of the refusals of the phone validation
PhoneRefused(r) ==
    \/ r.status = 400 /\ r.message = PhoneStartError(r.op, r.in).message
    \/ r.status = 400 /\ r.message = PhoneFormatError(r.op, r.in).message
    \/ r.status = 400 /\ r.message = "Validation failed"

\* the request got as far as the phone validation
PhoneValidated(r) ==
    /\ r.op \in PhoneOps
    /\ r.status # 401
    /\ r.message # "User with this email already exists"
    /\ PhoneOf(r.in) # <<>>

InvalidFields(op, in) ==
    LET body == IF op = "signup" THEN in ELSE in.body
        name == IF op = "signup" THEN Falsy(body.firstName) ELSE body.firstName = ""
        email == op = "signup" /\ (Falsy(body.email) \/ ~EmailMatch(CastEmail(body.email)))
        phone == ~FalsyPhone(body.phoneNumber) /\ ~E164(StripPhone(body.phoneNumber))
    IN  {f \in {"firstName", "email", "phoneNumber"} :
            \/ f = "firstName" /\ name
            \/ f = "email" /\ email
            \/ f = "phoneNumber" /\ phone}

\* the messages a response carries: its errors list, or its single message
Messages(r) == IF r.errors # <<>> THEN Len(r.errors) ELSE 1

\* C14: a signup or a profile edit that has several invalid fields at once
\* (an invalid phone number together with an invalid email or a missing
\* name) and is answered 400 gets one message for each invalid field.
C14_OneMessagePerInvalidField ==
    \A s \in Slots :
        ( /\ resp[s].op \in {"signup", "editProfile"}
          /\ resp[s].status = 400
          /\ Cardinality(InvalidFields(resp[s].op, resp[s].in)) >= 2 )
        => Messages(resp[s]) >= Cardinality(InvalidFields(resp[s].op, resp[s].in))

\* the signup or profile edit of slot s has had its picture uploaded
Uploaded(s) ==
    /\ reqs[s].op \in {"signup", "editProfile"}
    /\ reqs[s].pc # "upload"
    /\ reqs[s].loc.profilePictureUrl # NoUrl

\* C15: a signup, updatePhoneNumber, editProfile or updateUser that ends with
\* a validation or duplicate error (400) has changed nothing: the step that
\* answers leaves the collection as it is and uploads nothing, and no upload
\* was made for the request before.
C15_ErrorsBeforeMutation ==
    [][\A s \in Slots :
          ( /\ resp'[s] # resp[s]
            /\ resp'[s].op \in {"signup", "updatePhoneNumber", "editProfile", "updateUser"}
            /\ resp'[s].status = 400 )
          => /\ users' = users
             /\ mediaCount' = mediaCount
             /\ ~Uploaded(s)]_vars

\* C16: when the upload of a profile picture fails during signup,
\* updateProfilePicture or editProfile, the temporary file of the request
\* is gone by the time the failure response is sent.
C16_NoOrphanedTempFile ==
    \A s \in Slots :
        ( /\ resp[s].op \in {"signup", "updateProfilePicture", "editProfile"}
          /\ resp[s] = UploadFailed(resp[s].op, resp[s].in) )
        => s \notin tmpFiles

ManagementOps ==
    { "getAllUsers", "getUserById", "updateUser", "deleteUser", "toggleUserStatus",
      "bulkOperations", "exportUsers", "editProfile", "deleteProfile", "deactivateProfile" }

\* the request of response r is addressed to the sentinel id
AddressedToAdmin(r) ==
    \/ r.op \in {"getUserById", "updateUser", "deleteUser", "toggleUserStatus"} /\ r.in.id = AdminId
    \/ r.op = "bulkOperations" /\ AdminId \in r.in.body.userIds

\* C17: the administrator is never a record of the collection.  Admin login
\* leaves the collection as it is; no user-management or self-service
\* operation, addressed to an account or to the sentinel id, with a user
\* token or an admin token, returns the administrator, succeeds on the
\* sentinel id or changes anything when addressed to it; and in every state
\* the admin login succeeds for exactly the configured pair.
C17_AdminPrincipalOutsideStore ==
    [][/\ AdminId \notin DOMAIN users'
       /\ env' = env
       /\ \A in \in AdminLoginInputs :
             (adminLoginResponse(in).status = 200)
                 <=> (in.email = ConfiguredEnv.ADMIN_EMAIL /\ in.password = ConfiguredEnv.ADMIN_PASSWORD)
       /\ \A s \in Slots :
             /\ (resp'[s] # resp[s] /\ resp'[s].op = "adminLogin") => users' = users
             /\ resp'[s].op \in ManagementOps
                  => /\ resp'[s].user.id # AdminId
                     /\ \A u \in resp'[s].users : u.id # AdminId
             /\ ( /\ resp'[s] # resp[s]
                  /\ resp'[s].op \in ManagementOps
                  /\ AddressedToAdmin(resp'[s]) )
                => resp'[s].status # 200 /\ users' = users]_vars

\* with an account in the collection, an admin token has asked to delete the
\* sentinel id and has been answered
C17_Witness ==
    /\ Ids # {}
    /\ \E s \in Slots :
          /\ resp[s].op = "deleteUser"
          /\ resp[s].in.id = AdminId
          /\ resp[s].in.token.userId = AdminId
          /\ resp[s].status = 500

GatedAdminOps == {"getAllUsers", "getUserById", "deleteUser", "exportUsers"}

\* C18: the token of a successful admin login embeds the sentinel id, and a
\* token that verifies and embeds the sentinel id resolves to the static
\* admin principal with role admin and passes the gate of the admin routes,
\* whatever the collection holds.
C18_AdminTokenAccepted ==
    [][\A s \in Slots :
          /\ ( /\ resp'[s] # resp[s]
               /\ resp'[s].op = "adminLogin"
               /\ resp'[s].status = 200 )
             => resp'[s].token.userId = AdminId /\ verify(resp'[s].token)
          /\ ( /\ resp'[s] # resp[s]
               /\ resp'[s].op \in GatedAdminOps
               /\ resp'[s].in.token.userId = AdminId
               /\ verify(resp'[s].in.token) )
             => /\ protect(resp'[s].in.token) = adminUser
                /\ authorize(AdminRoles, adminUser)
                /\ resp'[s].status \notin {401, 403}]_vars

\* an admin token has listed the accounts of an empty collection
C18_Witness ==
    /\ Ids = {}
    /\ \E s \in Slots :
          /\ resp[s].op = "getAllUsers"
          /\ resp[s].in.token \in tokens
          /\ resp[s].in.token.userId = AdminId
          /\ resp[s].status = 200

\* C19: a handler that fails unexpectedly answers with a generic internal
\* error that carries no detail of the failure: no exception message reaches
\* the client.
C19_NoInternalDetail ==
    \A s \in Slots : resp[s].status = 500 => resp[s].error = Undefined

\* C20: in updatePhoneNumber and editProfile the uniqueness check excludes
\* the record of the authenticated user and only that one: a request is
\* refused as a duplicate only when a record other than the user's own holds
\* the submitted number, and the refusal changes nothing.
C20_OwnNumberNotDuplicate ==
    [][\A s \in Slots :
          ( /\ resp'[s] # resp[s]
            /\ resp'[s].op \in {"updatePhoneNumber", "editProfile"}
            /\ resp'[s] = PhoneTaken(resp'[s].op, resp'[s].in) )
          => /\ users' = users
             /\ \E i \in Ids \ {protect(resp'[s].in.token).id} :
                   users[i].phoneNumber = StripPhone(resp'[s].in.body.phoneNumber)]_vars

\* '+' followed by 1 to 15 digits, the first of them 1-9
PhoneShape(p) ==
    /\ Len(p) >= 2
    /\ Len(p) <= 16
    /\ p[1] = "+"
    /\ p[2] \in NonZeroDigits
    /\ \A i \in 3..Len(p) : p[i] \in Digits

\* C21: in every reachable state the phone number of each record is absent
\* or is '+' followed by 1 to 15 digits whose first digit is 1-9; no value
\* of another shape, such as the empty string, is ever stored.
C21_StoredPhoneShape ==
    \A i \in Ids : users[i].phoneNumber = UndefinedPhone \/ PhoneShape(users[i].phoneNumber)

\* the record of the stored administrator who sent the request of response r
StoredAdmin(r) ==
    {i \in Ids : i = protect(r.in.token).id /\ users[i].role = "admin"}

\* the ids that the request of response r asks to delete or deactivate
OwnAccountTargets(r) ==
    IF r.op = "deleteUser" THEN {r.in.id}
    ELSE IF r.op = "toggleUserStatus" /\ r.in.body.isActive # "true" THEN {r.in.id}
    ELSE IF r.op = "bulkOperations" THEN r.in.body.userIds
    ELSE {}

\* C22: an administrator who has a record cannot delete or deactivate their
\* own account: a deleteUser on their own id, a toggleUserStatus on their
\* own id with an isActive other than true, and a bulk operation that lists
\* their own id are answered 400 and change no record.
C22_NoSelfRemoval ==
    [][\A s \in Slots :
          ( /\ resp'[s] # resp[s]
            /\ resp'[s].op \in {"deleteUser", "toggleUserStatus", "bulkOperations"}
            /\ StoredAdmin(resp'[s]) \cap OwnAccountTargets(resp'[s]) # {} )
          => resp'[s].status = 400 /\ users' = users]_vars

\* C23: whatever admin operation a stored administrator issues, their own
\* record exists afterwards, is active and has the role admin.
C23_AdminKeepsAccess ==
    [][\A s \in Slots :
          ( /\ resp'[s] # resp[s]
            /\ resp'[s].op \in {"getAllUsers", "updateUser", "deleteUser",
                                "toggleUserStatus", "bulkOperations"} )
          => \A i \in StoredAdmin(resp'[s]) :
                /\ i \in DOMAIN users'
                /\ users'[i].isActive
                /\ users'[i].role = "admin"]_vars

\* C27: when toggleUserStatus answers 200, the status its message names is
\* the status of the stored record: 'activated' with isActive true,
\* 'deactivated' with isActive false, whatever the body carries.
C27_ToggleMessageAgrees ==
    [][\A s \in Slots :
          ( /\ resp'[s] # resp[s]
            /\ resp'[s].op = "toggleUserStatus"
            /\ resp'[s].status = 200 )
          => /\ resp'[s].message = "User activated successfully"
                  => users'[resp'[s].in.id].isActive
             /\ resp'[s].message = "User deactivated successfully"
                  => ~users'[resp'[s].in.id].isActive]_vars

Deactivated(in) == Response("login", in, 401, "Account is deactivated. Please contact support.")

\* the login supplies both fields and its email is that of a deactivated record
DeactivatedLogin(in) ==
    /\ ~Falsy(in.email) /\ ~Falsy(in.password)
    /\ \E i \in FindByEmail(in.email) : ~users[i].isActive

\* C25: a login for a record whose isActive is false is answered 401 with
\* the deactivation message, with the right password as with a wrong one,
\* and issues no token and leaves lastLoginAt, and the whole collection, as
\* it was.
C25_NoLoginWhenDeactivated ==
    [][\A s \in Slots :
          ( /\ Free(s)
            /\ reqs'[s].op = "login" \/ resp'[s].op = "login"
            /\ DeactivatedLogin(Arriving(s)) ) =>
                  /\ resp'[s].op = "login"
                  /\ Body(resp'[s]) = Body(Deactivated(Arriving(s)))
                  /\ UNCHANGED <<users, nextId, tokens>>]_vars

\* a deactivated account was refused with its right password, and another
\* login for it with a wrong password got the same answer
C25_Witness ==
    \E s, t \in Slots :
        /\ resp[s] = Deactivated(resp[s].in)
        /\ resp[t] = Deactivated(resp[t].in)
        /\ \E i \in FindByEmail(resp[s].in.email) :
              /\ ~users[i].isActive
              /\ Compare(resp[s].in.password, users[i].password)
              /\ i \in FindByEmail(resp[t].in.email)
              /\ ~Compare(resp[t].in.password, users[i].password)

\* C24: without the admin routes, whatever role or isActive the bodies
\* carry, every record has the role user, and a deactivated record that is
\* kept stays deactivated.
C24_NoSelfPromotion ==
    [][/\ \A i \in DOMAIN users' : users'[i].role = "user"
       /\ \A i \in Ids \cap DOMAIN users' : ~users[i].isActive => ~users'[i].isActive]_vars

\* beside a deactivated account, an edit whose body asked for the admin
\* role and for isActive true has been answered 200
C24_Witness ==
    /\ \E i \in Ids : ~users[i].isActive
    /\ \E s \in Slots :
          /\ resp[s].op = "editProfile"
          /\ resp[s].status = 200
          /\ resp[s].in.body.role = "admin"
          /\ resp[s].in.body.isActive = "true"
          /\ resp[s].user.role = "user"

SelfServiceOps ==
    {"editProfile", "updatePhoneNumber", "updateProfilePicture", "deleteProfile", "deactivateProfile"}

====
